---- MODULE Spec2Model ----
(***************************************************************************)
(* Konva.CurvedText (src/shapes/CurvedText.ts): glyph measurement, arc     *)
(* mapping, bounds reconciliation and painting, as a state machine over    *)
(* the node's attribute map.                                               *)
(*                                                                         *)
(* Numbers.  Lengths are integers counted in units of 1/Scale pixel.       *)
(* Angles handed to Math.sin / Math.cos are integers counted in            *)
(* micro-radians, and the two functions are evaluated in fixed point (six  *)
(* decimals) by range reduction and their Taylor polynomials.  A glyph     *)
(* coordinate is rounded to a whole 1/1000 pixel, i.e. to an even number   *)
(* of units, so that the halvings of the code (width / 2) are exact.       *)
(* A string is the sequence of its one-character substrings.  An attribute *)
(* that may be absent (undefined, null) is <<>> when absent and <<v>>      *)
(* when it holds v.                                                        *)
(***************************************************************************)
EXTENDS Integers, Sequences, FiniteSets, TLC

VARIABLES attrs, ctx, thrown, lastOp, ops, ret

vars == <<attrs, ctx, thrown, lastOp, ops, ret>>

----------------------------------------------------------------------------
(* Bounds of the model *)

\* operations applied to one shape after its construction
MaxOps == 2
\* longest text handed to a direct getTextMetrics() measurement
MaxLen == 3

----------------------------------------------------------------------------
(* Numbers *)

Scale == 2000
Micro == 1000000
PiMicro == 3141593
HalfPiMicro == 1570796
TwoPiMicro == 6283185

Abs(n) == IF n < 0 THEN -n ELSE n

\* a / b of two numbers, b > 0, rounded towards zero
DivT(a, b) == IF a >= 0 THEN a \div b ELSE -((-a) \div b)

\* a * b of two six-decimal fixed-point numbers a, b >= 0
MulMicro(a, b) ==
    LET ah == a \div 1000
        al == a % 1000
        bh == b \div 1000
        bl == b % 1000
    IN  ah * bh + ((ah * bl + al * bh) + ((al * bl) \div 1000)) \div 1000

\* sin t for 0 <= t <= pi/2
SinQ(t) ==
    LET u  == MulMicro(t, t)
        p6 == Micro - (u \div 156)
        p5 == Micro - (MulMicro(u, p6) \div 110)
        p4 == Micro - (MulMicro(u, p5) \div 72)
        p3 == Micro - (MulMicro(u, p4) \div 42)
        p2 == Micro - (MulMicro(u, p3) \div 20)
        p1 == Micro - (MulMicro(u, p2) \div 6)
    IN  MulMicro(t, p1)

\* cos t for 0 <= t <= pi/2
CosQ(t) ==
    LET u  == MulMicro(t, t)
        q7 == Micro - (u \div 182)
        q6 == Micro - (MulMicro(u, q7) \div 132)
        q5 == Micro - (MulMicro(u, q6) \div 90)
        q4 == Micro - (MulMicro(u, q5) \div 56)
        q3 == Micro - (MulMicro(u, q4) \div 30)
        q2 == Micro - (MulMicro(u, q3) \div 12)
    IN  Micro - (MulMicro(u, q2) \div 2)

\* Math.sin of t micro-radians, times Micro
SinMicro(t) ==
    LET r  == Abs(t) % TwoPiMicro
        h  == IF r > PiMicro THEN r - PiMicro ELSE r
        s  == IF h > HalfPiMicro THEN SinQ(PiMicro - h) ELSE SinQ(h)
        sg == IF r > PiMicro THEN -s ELSE s
    IN  IF t < 0 THEN -sg ELSE sg

\* Math.cos of t micro-radians, times Micro
CosMicro(t) ==
    LET r == Abs(t) % TwoPiMicro
        h == IF r > PiMicro THEN TwoPiMicro - r ELSE r
    IN  IF h > HalfPiMicro THEN -CosQ(PiMicro - h) ELSE CosQ(h)

\* Math.cos / Math.sin of the shape's rotation, a multiple of 90 degrees
CosDeg(r) == CASE r % 360 = 0 -> 1 [] r % 360 = 90 -> 0 [] r % 360 = 180 -> -1 [] r % 360 = 270 -> 0
SinDeg(r) == CASE r % 360 = 0 -> 0 [] r % 360 = 90 -> 1 [] r % 360 = 180 -> 0 [] r % 360 = 270 -> -1

----------------------------------------------------------------------------
(* Optional values and JavaScript's comparisons with undefined *)

Undef == <<>>
Def(v) == <<v>>
Has(o) == o # <<>>
Val(o) == o[1]

\* o > 0 and o < 0: both false of undefined
Gt0(o) == Has(o) /\ Val(o) > 0
Lt0(o) == Has(o) /\ Val(o) < 0

FlattenRadius == 1000000

\* o || 1000000
OrFlatten(o) == IF Has(o) /\ Val(o) # 0 THEN Val(o) ELSE FlattenRadius

----------------------------------------------------------------------------
(* Strings *)

Arial == <<"A", "r", "i", "a", "l">>
CourierNew == <<"C", "o", "u", "r", "i", "e", "r", " ", "N", "e", "w">>

Contains(s, c) == \E i \in 1..Len(s) : s[i] = c

RECURSIVE TrimLeft(_)
TrimLeft(s) == IF s # <<>> /\ Head(s) = " " THEN TrimLeft(Tail(s)) ELSE s

RECURSIVE TrimRight(_)
TrimRight(s) ==
    IF s # <<>> /\ s[Len(s)] = " " THEN TrimRight(SubSeq(s, 1, Len(s) - 1)) ELSE s

Trim(s) == TrimRight(TrimLeft(s))

\* s.split(',')
RECURSIVE Split(_, _)
Split(s, cur) ==
    IF s = <<>> THEN <<cur>>
    ELSE IF Head(s) = "," THEN <<cur>> \o Split(Tail(s), <<>>)
    ELSE Split(Tail(s), Append(cur, Head(s)))

\* parts.join(', ')
RECURSIVE Join(_)
Join(parts) ==
    IF Len(parts) = 1 THEN parts[1]
    ELSE parts[1] \o <<",", " ">> \o Join(Tail(parts))

QuoteFamily(f) ==
    LET family    == Trim(f)
        hasSpace  == Contains(family, " ")
        hasQuotes == Contains(family, "\"") \/ Contains(family, "'")
    IN  IF hasSpace /\ ~hasQuotes THEN <<"\"">> \o family \o <<"\"">> ELSE family

normalizeFontFamily(fontFamily) ==
    LET parts == Split(fontFamily, <<>>)
    IN  Join([i \in 1..Len(parts) |-> QuoteFamily(parts[i])])

\* the font descriptor: style, variant, size 'px' and family, kept apart
getContextFont(a) ==
    [style   |-> a.fontStyle,
     variant |-> a.fontVariant,
     size    |-> a.fontSize,
     family  |-> normalizeFontFamily(a.fontFamily)]

----------------------------------------------------------------------------
(* The canvas' measureText under a font: advance widths in units, with     *)
(* pair kerning.  A proportional face with the kerned pairs AV and VA, and *)
(* a monospaced face; bold widens a glyph, small caps are set unkerned.    *)

IsMono(font) == font.family = <<"\"">> \o CourierNew \o <<"\"">>

GlyphWidth(font, g) ==
    LET em   == (font.size * Scale) \div 12
        base == IF IsMono(font) THEN 8 ELSE IF g = "A" THEN 8 ELSE 6
        bold == IF font.style = "bold" THEN 2 ELSE 0
    IN  (base + bold) * em

Kern(font, g, h) ==
    LET em == (font.size * Scale) \div 12
    IN  IF IsMono(font) \/ font.variant = "small-caps" THEN 0
        ELSE IF (g = "A" /\ h = "V") \/ (g = "V" /\ h = "A") THEN -2 * em
        ELSE 0

RECURSIVE MeasureFrom(_, _, _)
MeasureFrom(font, s, i) ==
    IF i > Len(s) THEN 0
    ELSE GlyphWidth(font, s[i])
         + (IF i > 1 THEN Kern(font, s[i - 1], s[i]) ELSE 0)
         + MeasureFrom(font, s, i + 1)

\* context.measureText(s).width
measureText(font, s) == MeasureFrom(font, s, 1)

\* s.substring(i, j), indices from 0
substring(s, i, j) ==
    LET lo == IF i > Len(s) THEN Len(s) ELSE i
        hi == IF j > Len(s) THEN Len(s) ELSE j
    IN  SubSeq(s, lo + 1, hi)

----------------------------------------------------------------------------
(* Glyph Measurer *)

\* the loop of getTextMetrics over i = 1 .. text.length - 1
RECURSIVE XOffsetsLoop(_, _, _, _)
XOffsetsLoop(font, text, xOffsets, i) ==
    IF i < Len(text)
    THEN LET pairTextWidth    == measureText(font, substring(text, i - 1, i + 1))
             prevCharWidth    == measureText(font, substring(text, i - 1, i))
             currentCharWidth == measureText(font, substring(text, i, i + 1))
         IN  XOffsetsLoop(font, text,
                 Append(xOffsets, xOffsets[i] + pairTextWidth
                                  - (prevCharWidth \div 2) - (currentCharWidth \div 2)),
                 i + 1)
    ELSE xOffsets

\* getTextMetrics with the two widths subtracted whole, not halved
RECURSIVE XOffsetsLoop_FullWidths(_, _, _, _)
XOffsetsLoop_FullWidths(font, text, xOffsets, i) ==
    IF i < Len(text)
    THEN LET pairTextWidth    == measureText(font, substring(text, i - 1, i + 1))
             prevCharWidth    == measureText(font, substring(text, i - 1, i))
             currentCharWidth == measureText(font, substring(text, i, i + 1))
         IN  XOffsetsLoop_FullWidths(font, text,
                 Append(xOffsets, xOffsets[i] + pairTextWidth
                                  - prevCharWidth - currentCharWidth),
                 i + 1)
    ELSE xOffsets

getTextMetrics_FullWidths(a) ==
    LET font == getContextFont(a)
        text == a.text
    IN  [text     |-> text,
         xOffsets |-> XOffsetsLoop_FullWidths(font, text,
                          <<measureText(font, substring(text, 0, 1)) \div 2>>, 1),
         width    |-> measureText(font, text)]

getTextMetrics(a) ==
    LET font == getContextFont(a)
        text == a.text
    IN  [text     |-> text,
         xOffsets |-> XOffsetsLoop(font, text,
                          <<measureText(font, substring(text, 0, 1)) \div 2>>, 1),
         width    |-> measureText(font, text)]

----------------------------------------------------------------------------
(* Bounds Reconciler *)

\* the loop of updateBounds over the placed glyphs, from index i (1-based)
RECURSIVE BoundsLoop(_, _, _)
BoundsLoop(tb, text, i) ==
    IF i > Len(text) THEN tb
    ELSE LET b1 == IF tb.minX > text[i].x THEN [tb EXCEPT !.minX = text[i].x] ELSE tb
             b2 == IF b1.maxX < text[i].x THEN [b1 EXCEPT !.maxX = text[i].x] ELSE b1
             b3 == IF b2.minY > text[i].y THEN [b2 EXCEPT !.minY = text[i].y] ELSE b2
             b4 == IF b3.maxY < text[i].y THEN [b3 EXCEPT !.maxY = text[i].y] ELSE b3
         IN  BoundsLoop(b4, text, i + 1)

\* updateBounds that centers the new box on the old x, the old width forgotten
updateBounds_FromNewWidth(a, oldBounds, text) ==
    LET textBounds == BoundsLoop([minX |-> text[1].x, minY |-> text[1].y,
                                  maxX |-> text[1].x, maxY |-> text[1].x], text, 1)
        newWidth   == textBounds.maxX - textBounds.minX + a.fontSize * Scale
        newHeight  == textBounds.maxY - textBounds.minY + a.fontSize * Scale
        dx == DivT(- newWidth * oldBounds.scaleX, 2)
        dy == IF Lt0(a.curveDirection)
              THEN oldBounds.height * oldBounds.scaleY - newHeight * oldBounds.scaleY
              ELSE 0
    IN  [a EXCEPT !.width  = newWidth,
                  !.height = newHeight,
                  !.x = oldBounds.x + (dx * CosDeg(oldBounds.rotation)
                                       + dy * SinDeg(oldBounds.rotation)),
                  !.y = oldBounds.y + (dx * SinDeg(oldBounds.rotation)
                                       + dy * CosDeg(oldBounds.rotation))]

\* updateBounds that shifts x by the whole change of width, not by half of it
updateBounds_NoHalving(a, oldBounds, text) ==
    LET textBounds == BoundsLoop([minX |-> text[1].x, minY |-> text[1].y,
                                  maxX |-> text[1].x, maxY |-> text[1].x], text, 1)
        newWidth   == textBounds.maxX - textBounds.minX + a.fontSize * Scale
        newHeight  == textBounds.maxY - textBounds.minY + a.fontSize * Scale
        dx == oldBounds.width * oldBounds.scaleX - newWidth * oldBounds.scaleX
        dy == IF Lt0(a.curveDirection)
              THEN oldBounds.height * oldBounds.scaleY - newHeight * oldBounds.scaleY
              ELSE 0
    IN  [a EXCEPT !.width  = newWidth,
                  !.height = newHeight,
                  !.x = oldBounds.x + (dx * CosDeg(oldBounds.rotation)
                                       + dy * SinDeg(oldBounds.rotation)),
                  !.y = oldBounds.y + (dx * SinDeg(oldBounds.rotation)
                                       + dy * CosDeg(oldBounds.rotation))]

\* updateBounds(oldBounds, text) of a non-empty text: the attributes it leaves
updateBounds(a, oldBounds, text) ==
    LET textBounds == BoundsLoop([minX |-> text[1].x, minY |-> text[1].y,
                                  maxX |-> text[1].x, maxY |-> text[1].x], text, 1)
        newWidth   == textBounds.maxX - textBounds.minX + a.fontSize * Scale
        newHeight  == textBounds.maxY - textBounds.minY + a.fontSize * Scale
        dx == DivT(oldBounds.width * oldBounds.scaleX - newWidth * oldBounds.scaleX, 2)
        dy == IF Lt0(a.curveDirection)
              THEN oldBounds.height * oldBounds.scaleY - newHeight * oldBounds.scaleY
              ELSE 0
    IN  [a EXCEPT !.width  = newWidth,
                  !.height = newHeight,
                  !.x = oldBounds.x + (dx * CosDeg(oldBounds.rotation)
                                       + dy * SinDeg(oldBounds.rotation)),
                  !.y = oldBounds.y + (dx * SinDeg(oldBounds.rotation)
                                       + dy * CosDeg(oldBounds.rotation))]

----------------------------------------------------------------------------
(* Arc Mapper *)

\* the angle rotation * Math.PI / 180 of glyph i (1-based), in micro-radians
GlyphAngle(textMetrics, radius, i) ==
    DivT(((textMetrics.xOffsets[i] - (textMetrics.width \div 2)) * (Micro \div Scale)),
         radius)

\* the glyph pushed by the loop body of computeText
PlacedGlyph(textMetrics, curveRadius, curveDirection, i) ==
    LET angle == GlyphAngle(textMetrics, curveRadius, i)
        cy    == IF Gt0(curveDirection) THEN curveRadius ELSE -curveRadius
    IN  [x        |-> 2 * DivT(curveRadius * SinMicro(angle), 1000),
         y        |-> 2 * DivT(cy * (Micro - CosMicro(angle)), 1000),
         rotation |-> IF curveRadius = 0 THEN 0
                      ELSE IF Gt0(curveDirection) THEN angle ELSE -angle,
         glyph    |-> textMetrics.text[i]]

\* computeText(): the attributes it leaves, and whether it raised a TypeError
\* (updateBounds reads text[0].x, which no empty glyph list has)
computeText(a) ==
    LET bounds == [x |-> a.x, y |-> a.y, width |-> a.width, height |-> a.height,
                   rotation |-> a.rotation, scaleX |-> a.scaleX, scaleY |-> a.scaleY]
        curveRadius    == OrFlatten(a.curveRadius)
        curveDirection == a.curveDirection
        textMetrics    == getTextMetrics(a)
        text == [i \in 1..Len(textMetrics.text) |->
                     PlacedGlyph(textMetrics, curveRadius, curveDirection, i)]
    IN  IF text = <<>>
        THEN [attrs |-> a, thrown |-> TRUE]
        ELSE [attrs |-> [updateBounds(a, bounds, text) EXCEPT !._computedText =
                    Def([curvePath |->
                             [cx |-> 0,
                              cy |-> IF Gt0(curveDirection)
                                     THEN curveRadius ELSE -curveRadius,
                              radius |-> curveRadius,
                              color  |-> "rgb(31, 163, 249)"],
                         textMetrics |-> textMetrics,
                         curveText   |-> text])],
              thrown |-> FALSE]

----------------------------------------------------------------------------
(* Curved Renderer *)

Op(name, args) == [op |-> name, args |-> args]

\* the renderer's branch: the glyphs hang from the bottom of the box unless
\* curveDirection > 0
BottomAnchored(a) == ~Gt0(a.curveDirection)

\* the y the renderer translates to for a point at height py
BaselineY(a, py) ==
    IF ~BottomAnchored(a)
    THEN py + (a.fontSize * Scale) \div 2
    ELSE py + a.height - (a.fontSize * Scale) \div 2

GlyphOps(a, g) ==
    << Op("save", <<>>),
       Op("translate", <<a.width \div 2 + g.x, BaselineY(a, g.y)>>),
       Op("rotate", <<g.rotation>>),
       Op("fillText", <<g.glyph, 0, 0>>),
       Op("restore", <<>>) >>

RECURSIVE AllGlyphOps(_, _, _)
AllGlyphOps(a, curveText, i) ==
    IF i > Len(curveText) THEN <<>>
    ELSE GlyphOps(a, curveText[i]) \o AllGlyphOps(a, curveText, i + 1)

GuideOps(a, curvePath) ==
    << Op("strokeStyle", <<curvePath.color>>),
       Op("save", <<>>),
       Op("beginPath", <<>>),
       Op("arc", <<a.width \div 2 + curvePath.cx,
                   BaselineY(a, curvePath.cy * Scale), curvePath.radius * Scale>>),
       Op("stroke", <<>>),
       Op("beginPath", <<>>),
       Op("fillStyle", <<curvePath.color>>),
       Op("arc", <<a.width \div 2 + curvePath.cx,
                   BaselineY(a, curvePath.cy * Scale), 3 * Scale>>),
       Op("fill", <<>>),
       Op("restore", <<>>) >>

\* _sceneFunc(context): the calls made on the context
sceneFunc(a) ==
    IF ~Has(a._computedText) THEN <<>>
    ELSE LET computedText == Val(a._computedText)
         IN  << Op("fillStyle", <<IF a._editingMode THEN "rgba(0,0,0,0.1)" ELSE a.fill>>),
                Op("font", <<getContextFont(a)>>),
                Op("textBaseline", <<"middle">>),
                Op("textAlign", <<"center">>) >>
             \o AllGlyphOps(a, computedText.curveText, 1)
             \o (IF ~(Has(a.curveRadius) /\ Val(a.curveRadius) = 0) /\ a.showCurvePath
                 THEN GuideOps(a, computedText.curvePath)
                 ELSE <<>>)

----------------------------------------------------------------------------
(* The shape *)

\* the attribute map of a node built from config cfg, before the constructor's
\* own computeText(): absent attributes read as the defaults of their getters
InitialAttrs(cfg) ==
    [text           |-> cfg.text,
     fontFamily     |-> cfg.fontFamily,
     fontSize       |-> cfg.fontSize,
     fontStyle      |-> cfg.fontStyle,
     fontVariant    |-> cfg.fontVariant,
     showCurvePath  |-> FALSE,
     curveRadius    |-> cfg.curveRadius,
     curveDirection |-> cfg.curveDirection,
     fill           |-> "black",
     x |-> 0, y |-> 0, width |-> 0, height |-> 0,
     rotation |-> cfg.rotation, scaleX |-> cfg.scaleX, scaleY |-> cfg.scaleY,
     _computedText  |-> Undef,
     _editingMode   |-> FALSE]

\* new CurvedText(config)
constructor(cfg) == computeText(InitialAttrs(cfg))

\* the values the model draws the operations' arguments from
Texts == { <<>>, <<"A">>, <<"A", "V">>, <<"V", "A", "A">> }
Radii == { 0, 1, 50 }
Directions == { -1, 0, 1 }
Transforms == { <<0, 1, 1>>, <<0, 2, 3>>, <<90, 2, 3>>, <<180, 1, 1>>, <<270, 2, 3>> }
FontSizes == { 12, 24 }
FontFamilies == { Arial, CourierNew }
FontStyles == { "normal", "bold" }
FontVariants == { "normal", "small-caps" }

Alphabet == { "A", "V" }

\* the strings of at most n glyphs
TextsUpTo(n) == UNION { [1..k -> Alphabet] : k \in 0..n }

\* a config that leaves out the font attributes: they read as their defaults
DefaultFont(t, r, d, tr) ==
    [text |-> t, curveRadius |-> r, curveDirection |-> d,
     rotation |-> tr[1], scaleX |-> tr[2], scaleY |-> tr[3],
     fontFamily |-> Arial, fontSize |-> 12,
     fontStyle |-> "normal", fontVariant |-> "normal"]

Configs ==
    { DefaultFont(t, r, d, tr) :
        t \in { <<>>, <<"A">>, <<"A", "V">> },
        r \in { Undef } \cup { Def(v) : v \in Radii },
        d \in { Undef } \cup { Def(v) : v \in Directions },
        tr \in Transforms }

\* configs that give a text and a font, and nothing else
MetricsConfigs ==
    { [DefaultFont(t, Undef, Undef, <<0, 1, 1>>) EXCEPT
           !.fontFamily = ff, !.fontSize = fs, !.fontStyle = st, !.fontVariant = fv] :
        t \in TextsUpTo(MaxLen), ff \in FontFamilies, fs \in FontSizes,
        st \in FontStyles, fv \in FontVariants }

Constructed(cfg) ==
    /\ attrs = constructor(cfg).attrs
    /\ thrown = constructor(cfg).thrown
    /\ ctx = <<>>
    /\ lastOp = "constructor"
    /\ ops = 0
    /\ ret = Undef

Init == \E cfg \in Configs : Constructed(cfg)

InitMetrics == \E cfg \in MetricsConfigs : Constructed(cfg)

\* a shape exists (its constructor returned) and the run may go on
Alive == ~(lastOp = "constructor" /\ thrown) /\ ops < MaxOps

Step(name) == lastOp' = name /\ ops' = ops + 1

\* setText(text): arg is Undef for null / undefined, Def(s) for a string s
setText(arg) ==
    LET str == IF Has(arg) THEN Val(arg) ELSE <<>>
        res == computeText([attrs EXCEPT !.text = str])
    IN  /\ Alive
        /\ attrs' = res.attrs
        /\ thrown' = res.thrown
        /\ Step("setText")
        /\ UNCHANGED <<ctx, ret>>

\* a setter made by Factory.addGetterSetter, or setAttr of an attribute that has
\* no setter: the value is stored
setAttr(key, val) ==
    /\ Alive
    /\ attrs' = [attrs EXCEPT ![key] = val]
    /\ thrown' = FALSE
    /\ Step("setAttr")
    /\ UNCHANGED <<ctx, ret>>

\* a direct call of computeText()
ComputeText ==
    /\ Alive
    /\ attrs' = computeText(attrs).attrs
    /\ thrown' = computeText(attrs).thrown
    /\ Step("computeText")
    /\ UNCHANGED <<ctx, ret>>

\* a paint that lays the text out again before it draws
SceneFunc_Recomputes ==
    /\ Alive
    /\ ctx' = sceneFunc(computeText(attrs).attrs)
    /\ attrs' = computeText(attrs).attrs
    /\ thrown' = FALSE
    /\ Step("paint")
    /\ UNCHANGED ret

\* a paint: _sceneFunc(context) on a fresh context
SceneFunc ==
    /\ Alive
    /\ ctx' = sceneFunc(attrs)
    /\ thrown' = FALSE
    /\ Step("paint")
    /\ UNCHANGED <<attrs, ret>>

\* a direct call of getTextMetrics()
GetTextMetrics ==
    /\ Alive
    /\ ret' = Def(getTextMetrics(attrs))
    /\ thrown' = FALSE
    /\ Step("getTextMetrics")
    /\ UNCHANGED <<attrs, ctx>>

SetText == \E t \in Texts : setText(Def(t))
SetTextNull == setText(Undef)
SetFontSize == \E v \in FontSizes : setAttr("fontSize", v)
SetFontFamily == \E v \in FontFamilies : setAttr("fontFamily", v)
SetFontStyle == \E v \in FontStyles : setAttr("fontStyle", v)
SetFontVariant == \E v \in FontVariants : setAttr("fontVariant", v)
SetCurveRadius == \E v \in Radii : setAttr("curveRadius", Def(v))
SetCurveDirection == \E v \in Directions : setAttr("curveDirection", Def(v))
SetShowCurvePath == \E v \in BOOLEAN : setAttr("showCurvePath", v)

Next ==
    \/ SetText
    \/ SetTextNull
    \/ SetFontSize
    \/ SetFontFamily
    \/ SetFontStyle
    \/ SetFontVariant
    \/ SetCurveRadius
    \/ SetCurveDirection
    \/ SetShowCurvePath
    \/ ComputeText
    \/ SceneFunc
    \/ GetTextMetrics

Spec == Init /\ [][Next]_vars

\* the glyph measurer alone, over every text and font
NextMetrics == GetTextMetrics

SpecMetrics == InitMetrics /\ [][NextMetrics]_vars

----------------------------------------------------------------------------
(* Properties *)

RecomputeOps == { "constructor", "setText", "computeText" }

\* the last operation was a recompute that returned
Recomputed == lastOp \in RecomputeOps /\ ~thrown

\* the next state follows a recompute, on a shape that existed, that returned
RecomputeStep == lastOp' \in { "setText", "computeText" } /\ ~thrown'

SetMax(S) == CHOOSE m \in S : \A n \in S : n <= m
SetMin(S) == CHOOSE m \in S : \A n \in S : m <= n

GlyphXs(a) == { Val(a._computedText).curveText[i].x :
                    i \in 1..Len(Val(a._computedText).curveText) }
GlyphYs(a) == { Val(a._computedText).curveText[i].y :
                    i \in 1..Len(Val(a._computedText).curveText) }

CenterX(a) == a.x + (a.width * a.scaleX) \div 2
BottomEdge(a) == a.y + a.height * a.scaleY

\* C1: at every paint the cached layout is the layout computeText would produce
\* from the current values of text, the font attributes, curveRadius and
\* curveDirection (stated for the non-empty texts, whose recompute returns).
C1_PaintSeesFreshLayout ==
    (lastOp = "paint" /\ attrs.text # <<>>) =>
        attrs._computedText = computeText(attrs).attrs._computedText

\* C2: with the empty text a recompute raises no error, the cached layout holds
\* no placed glyph, and width and height are each exactly fontSize.
C2_EmptyTextLaysOut ==
    (lastOp \in RecomputeOps /\ attrs.text = <<>>) =>
        /\ ~thrown
        /\ Has(attrs._computedText)
        /\ Len(Val(attrs._computedText).curveText) = 0
        /\ attrs.width = attrs.fontSize * Scale
        /\ attrs.height = attrs.fontSize * Scale

\* C3: with curveRadius 0 every placed glyph of a recomputed layout has
\* rotation exactly 0.
C3_FlattenGivesNoTilt ==
    (Recomputed /\ attrs.curveRadius = Def(0)) =>
        \A i \in 1..Len(Val(attrs._computedText).curveText) :
            Val(attrs._computedText).curveText[i].rotation = 0

\* C4: for a non-empty text getTextMetrics returns one offset per glyph, the
\* first is half the width of the first glyph, each later one is the one before
\* plus the pair's width less the two half widths, and the offsets never decrease.
C4_OffsetsWellFormed ==
    (lastOp = "getTextMetrics" /\ attrs.text # <<>>) =>
        LET m    == Val(ret)
            font == getContextFont(attrs)
            w(i) == measureText(font, <<attrs.text[i]>>)
        IN  /\ Len(m.xOffsets) = Len(attrs.text)
            /\ m.xOffsets[1] * 2 = w(1)
            /\ \A i \in 2..Len(attrs.text) :
                /\ m.xOffsets[i] >= m.xOffsets[i - 1]
                /\ 2 * (m.xOffsets[i] - m.xOffsets[i - 1])
                     = 2 * measureText(font, <<attrs.text[i - 1], attrs.text[i]>>)
                       - w(i - 1) - w(i)

\* C4's case: three glyphs with a kerned pair have been measured
C4_Witness ==
    /\ lastOp = "getTextMetrics"
    /\ attrs.text = <<"A", "V", "V">>
    /\ attrs.fontStyle = "bold"
    /\ attrs.fontSize = 24
    /\ Val(ret).xOffsets[2] < Val(ret).xOffsets[1]
                              + GlyphWidth(getContextFont(attrs), "A") \div 2
                              + GlyphWidth(getContextFont(attrs), "V") \div 2

\* C5: a computeText() right after a recompute changes nothing: the cached
\* layout and x, y, width and height stay as the first call left them.
C5_RecomputeIdempotent ==
    (lastOp \in RecomputeOps) =>
        computeText(attrs) = [attrs |-> attrs, thrown |-> thrown]

\* C5's case: a rotated, scaled, tightly curved shape was re-laid out after an
\* attribute had changed
C5_Witness ==
    /\ lastOp = "computeText" /\ ~thrown /\ ops = 2
    /\ attrs.rotation = 90 /\ attrs.scaleX = 2 /\ attrs.scaleY = 3
    /\ attrs.curveRadius = Def(1) /\ attrs.curveDirection = Def(-1)
    /\ attrs.fontSize = 24
    /\ Len(Val(attrs._computedText).curveText) = 2
    /\ attrs.height > attrs.fontSize * Scale

\* C6: a paint leaves every attribute of the shape, the cached layout among
\* them, as it was.
C6_PaintDoesNotMutate == [][lastOp' = "paint" => attrs' = attrs]_vars

\* C6's case: a paint drew glyphs and the guide circle
C6_Witness ==
    /\ lastOp = "paint"
    /\ \E i \in 1..Len(ctx) : ctx[i].op = "fillText"
    /\ \E i \in 1..Len(ctx) : ctx[i].op = "arc"

\* C7: after a recompute width is the spread of the glyph x coordinates plus
\* fontSize, and height the spread of the glyph y coordinates plus fontSize.
C7_BoundingBoxOfGlyphPoints ==
    Recomputed =>
        /\ attrs.width = SetMax(GlyphXs(attrs)) - SetMin(GlyphXs(attrs))
                         + attrs.fontSize * Scale
        /\ attrs.height = SetMax(GlyphYs(attrs)) - SetMin(GlyphYs(attrs))
                          + attrs.fontSize * Scale

\* C8: a recompute moves the anchor by (dx, dy) turned by the standard rotation:
\* x by dx cos r - dy sin r and y by dx sin r + dy cos r.
C8_StandardRotation ==
    [][RecomputeStep =>
        LET dx == ((attrs.width - attrs'.width) * attrs.scaleX) \div 2
            dy == IF Lt0(attrs'.curveDirection)
                  THEN (attrs.height - attrs'.height) * attrs.scaleY ELSE 0
            r  == attrs.rotation
        IN  /\ attrs'.x = attrs.x + dx * CosDeg(r) - dy * SinDeg(r)
            /\ attrs'.y = attrs.y + dx * SinDeg(r) + dy * CosDeg(r)]_vars

\* C9: at rotation 0 a setText of a non-empty text keeps the horizontal center;
\* it keeps the bottom edge when curveDirection < 0 and y itself otherwise.
C9_AnchorPreserved ==
    [][(lastOp' = "setText" /\ attrs'.text # <<>> /\ attrs.rotation = 0) =>
        /\ CenterX(attrs') = CenterX(attrs)
        /\ Lt0(attrs.curveDirection) => BottomEdge(attrs') = BottomEdge(attrs)
        /\ ~Lt0(attrs.curveDirection) => attrs'.y = attrs.y]_vars

\* C9's case: an unrotated, scaled, upward-anchored shape whose text was
\* replaced by a longer one on a tight curve
C9_Witness ==
    /\ lastOp = "setText" /\ ~thrown /\ ops = 2
    /\ attrs.rotation = 0 /\ attrs.scaleX = 2
    /\ attrs.curveDirection = Def(-1) /\ attrs.curveRadius = Def(50)
    /\ attrs.text = <<"V", "A", "A">>
    /\ attrs.height > attrs.fontSize * Scale
    /\ attrs.y # 0

\* C10: the mapper's circle center above the baseline, the renderer's bottom
\* anchoring and the reconciler's vertical re-anchoring go together: a recompute
\* of an unrotated shape that is rendered bottom-anchored holds its bottom edge.
C10_DirectionBranchesAgree ==
    [][(RecomputeStep /\ attrs.rotation = 0) =>
        LET centerAbove == Val(attrs'._computedText).curvePath.cy < 0
            bottomAnchored == BottomAnchored(attrs')
        IN  /\ centerAbove = bottomAnchored
            /\ bottomAnchored => BottomEdge(attrs') = BottomEdge(attrs)]_vars

====
